---- MODULE Spec2Model ----
(***************************************************************************)
(* The in-memory blog API of src/blog-api.js: the posts array, the router  *)
(* of the Deno.serve callback and its handlers.  A handler runs without    *)
(* interruption up to an `await`; the POST and PUT handlers await          *)
(* parseJsonBody(req), so each of them is two steps (Begin: the code       *)
(* before the await, Finish: the code after it) and the steps of           *)
(* different requests interleave.  A JavaScript value is a record tagged   *)
(* with its type; a JavaScript object is a function from property names    *)
(* to values; an array index i of the code is position i + 1 here.         *)
(***************************************************************************)
EXTENDS Integers, Sequences, FiniteSets, Bags, TLC

VARIABLES
  posts,     \* the posts array
  pending,   \* the handlers suspended at their await (a bag)
  nextId,    \* the number of ids generateId has returned
  last,      \* the request of the last step and the response it got
  deleted,   \* the ids that a DELETE answered 200 has removed
  begun,     \* the number of handlers that have reached their await
  fresh,     \* id -> the record its POST returned, until a PUT or DELETE of that id arrives
  updated    \* the ids of the paths of the PUT requests answered 200

vars == <<posts, pending, nextId, last, deleted, begun, fresh, updated>>

(* ------------------------------ bounds --------------------------------- *)

\* number of requests (POST and PUT) whose handler may reach its await
MaxAwaits == 2
\* number of distinct readings of the wall clock
MaxTime == 1

(* -------------------------- JavaScript values -------------------------- *)

Undefined == [t |-> "undefined"]
Null == [t |-> "null"]
Str(s) == [t |-> "string", v |-> s]
Num(s) == [t |-> "number", v |-> s]
Bool(s) == [t |-> "boolean", v |-> s]
Obj(o) == [t |-> "object", o |-> o]

\* ToBoolean: undefined, null, false, 0, NaN and "" are falsy
Truthy(x) ==
  CASE x.t = "undefined" -> FALSE
    [] x.t = "null" -> FALSE
    [] x.t = "string" -> x.v # ""
    [] x.t = "number" -> x.v \notin {"0", "-0", "NaN"}
    [] x.t = "boolean" -> x.v = "true"
    [] OTHER -> TRUE

\* a || b
Or(a, b) == IF Truthy(a) THEN a ELSE b

\* o.f for a stored object o (a function from property names to values)
Get(o, f) == IF f \in DOMAIN o THEN o[f] ELSE Undefined

\* x.f for a JSON value x that is not null: a property of an object, and
\* undefined on a primitive (none of the names read is a property of one)
Prop(x, f) == IF x.t = "object" THEN Get(x.o, f) ELSE Undefined

\* { ...a, ...b }: the properties of b override those of a
Spread(a, b) == b @@ a

(* ------------------------------- paths --------------------------------- *)

\* a path is the sequence of the characters of url.pathname
ApiPosts == <<"/", "a", "p", "i", "/", "p", "o", "s", "t", "s">>
Home == <<"/">>

\* the characters \w and "-" of the class [\w-]
WordChars ==
  { "a", "b", "c", "d", "e", "f", "g", "h", "i", "j", "k", "l", "m",
    "n", "o", "p", "q", "r", "s", "t", "u", "v", "w", "x", "y", "z",
    "A", "B", "C", "D", "E", "F", "G", "H", "I", "J", "K", "L", "M",
    "N", "O", "P", "Q", "R", "S", "T", "U", "V", "W", "X", "Y", "Z",
    "0", "1", "2", "3", "4", "5", "6", "7", "8", "9", "_", "-" }

\* path.match(/^\/api\/posts\/[\w-]+$/)
MatchesPostPath(path) ==
  LET pre == ApiPosts \o <<"/">> IN
    /\ Len(path) > Len(pre)
    /\ SubSeq(path, 1, Len(pre)) = pre
    /\ \A i \in (Len(pre) + 1)..Len(path) : path[i] \in WordChars

\* the characters of a sequence as one string
RECURSIVE Chars2Str(_)
Chars2Str(cs) == IF cs = <<>> THEN "" ELSE Head(cs) \o Chars2Str(Tail(cs))

\* path.split("/").pop(): what follows the last "/" of the path
RECURSIVE LastSegment(_)
LastSegment(path) ==
  IF path = <<>> \/ path[Len(path)] = "/" THEN <<>>
  ELSE Append(LastSegment(SubSeq(path, 1, Len(path) - 1)), path[Len(path)])

PathId(path) == Chars2Str(LastSegment(path))

(* ------------------------------ the store ------------------------------ *)

\* an array slot that was never written (posts[i] reads undefined)
Hole == [t |-> "hole"]

SeedPosts ==
  << [ id |-> Str("1"),
       title |-> Str("Introduction to Deno Deploy"),
       content |-> Str("Deno Deploy is a distributed hosting service for Deno applications..."),
       author |-> Str("Deno User"),
       createdAt |-> Str("2025-05-01T10:00:00Z") ],
     [ id |-> Str("2"),
       title |-> Str("Working with Deno KV"),
       content |-> Str("Deno KV provides a simple key-value storage solution..."),
       author |-> Str("Deno Fan"),
       createdAt |-> Str("2025-05-02T14:30:00Z") ] >>

\* the n-th value of crypto.randomUUID(), as characters and as a string;
\* two calls never return the same value
UuidChars(n) == <<"a", "-", ToString(n)>>
generateId(n) == Chars2Str(UuidChars(n))

\* new Date().toISOString() at clock reading t
toISOString(t) == "2025-06-0" \o ToString(t) \o "T00:00:00.000Z"

\* posts[i] of the code (i counts from 0): undefined outside the array and on a hole
At(ps, i) == IF i + 1 \in 1..Len(ps) /\ ps[i + 1] # Hole THEN ps[i + 1] ELSE Undefined

\* the positions at which the search of posts.find / posts.findIndex with
\* p => p.id === id stops: a match, or a hole (both visit a hole as
\* undefined, and the callback throws a TypeError reading its id)
Stops(ps, id) == { i \in 1..Len(ps) : ps[i] = Hole \/ Get(ps[i], "id") = Str(id) }
FirstStop(ps, id) == CHOOSE i \in Stops(ps, id) : \A j \in Stops(ps, id) : i <= j

\* the callback of find / findIndex throws before a match is found
FindThrows(ps, id) == Stops(ps, id) # {} /\ ps[FirstStop(ps, id)] = Hole

\* posts.findIndex(p => p.id === id) when the callback does not throw
findIndex(ps, id) == IF Stops(ps, id) = {} THEN -1 ELSE FirstStop(ps, id) - 1

\* Replacing by removal and append: the entry at index i is taken out and the
\* merged post is pushed at the end.
WriteAt_MoveToEnd(ps, i, p) ==
  SubSeq(ps, 1, i) \o SubSeq(ps, i + 2, Len(ps)) \o <<p>>

\* posts[i] = p: a write past the end leaves holes in between
WriteAt(ps, i, p) ==
  [ k \in 1..(IF i + 1 > Len(ps) THEN i + 1 ELSE Len(ps)) |->
      IF k = i + 1 THEN p ELSE IF k <= Len(ps) THEN ps[k] ELSE Hole ]

\* posts.unshift(p) in the place of posts.push(p): C5 tells the two apart
Push_Front(ps, p) == <<p>> \o ps

\* posts.push(p)
Push(ps, p) == Append(ps, p)

\* posts.splice(i) without a count: every element from index i on is removed
Splice_Tail(ps, i) == SubSeq(ps, 1, i)

\* posts.splice(i, 1): the array without position i
Splice(ps, i) == SubSeq(ps, 1, i) \o SubSeq(ps, i + 2, Len(ps))

(* ------------------------- requests and responses ---------------------- *)

\* the body of a request the handler did not read
Unread == [t |-> "unread"]
\* a body on which req.json() rejects (no JSON text)
Malformed == [t |-> "malformed"]

\* parseJsonBody: the value of req.json(), and null when it rejects
parseJsonBody(raw) == IF raw = Malformed THEN Null ELSE raw

\* JSON.stringify of a stored entry: a property whose value is undefined is
\* left out, and a hole of an array is written as null
Stringify(p) ==
  IF p = Hole THEN Null
  ELSE [ f \in { g \in DOMAIN p : p[g] # Undefined } |-> p[f] ]
StringifyAll(ps) == [ i \in 1..Len(ps) |-> Stringify(ps[i]) ]

\* the `headers` object of the handler, and the headers of the home page
CorsHeaders == "application/json; Allow-Origin *; Allow-Methods GET, POST, PUT, DELETE, OPTIONS; Allow-Headers Content-Type"
HtmlHeaders == "text/html"

Response(status, headers, body) == [status |-> status, headers |-> headers, body |-> body]
Json(status, body) == Response(status, CorsHeaders, body)

\* Deno.serve answers a handler that throws with its default error response
InternalError == Response(500, "none", [text |-> "Internal Server Error"])

\* no response yet: the handler is suspended at its await
Awaiting == Response(0, "none", [awaiting |-> TRUE])

Exchange(method, path, body, resp) ==
  [req |-> [method |-> method, path |-> path, body |-> body], resp |-> resp]

\* A routing that tests for the preflight after the other routes instead of first.
Route_PreflightLast(method, path) ==
  IF path = ApiPosts /\ method = "GET" THEN "list"
  ELSE IF MatchesPostPath(path) /\ method = "GET" THEN "get"
  ELSE IF path = ApiPosts /\ method = "POST" THEN "create"
  ELSE IF MatchesPostPath(path) /\ method = "PUT" THEN "update"
  ELSE IF MatchesPostPath(path) /\ method = "DELETE" THEN "delete"
  ELSE IF path = Home THEN "home"
  ELSE IF method = "OPTIONS" THEN "preflight"
  ELSE "notfound"

\* the branch of the Deno.serve callback a request takes, in the order of
\* its if statements
Route(method, path) ==
  IF method = "OPTIONS" THEN "preflight"
  ELSE IF path = ApiPosts /\ method = "GET" THEN "list"
  ELSE IF MatchesPostPath(path) /\ method = "GET" THEN "get"
  ELSE IF path = ApiPosts /\ method = "POST" THEN "create"
  ELSE IF MatchesPostPath(path) /\ method = "PUT" THEN "update"
  ELSE IF MatchesPostPath(path) /\ method = "DELETE" THEN "delete"
  ELSE IF path = Home THEN "home"
  ELSE "notfound"

(* ------------------------------- inputs -------------------------------- *)

Methods == {"GET", "POST", "PUT", "DELETE", "OPTIONS"}

\* the ids a client may put in a path: the seeds, every id generateId can
\* return, and a name with a character outside [\w-]
IdChars == {<<"1">>, <<"2">>, <<"1", ".", "5">>} \cup { UuidChars(n) : n \in 1..MaxAwaits }

Paths ==
  {Home, ApiPosts, ApiPosts \o <<"/">>}
    \cup { ApiPosts \o <<"/">> \o c : c \in IdChars }

\* request bodies: no JSON, JSON values that are not objects, and objects
Bodies ==
  { Malformed,
    Null,
    Obj([title |-> Str("T"), content |-> Str("C")]),
    Obj([title |-> Str("T")]),
    Obj([title |-> Str(""), content |-> Str("C")]),
    Obj([author |-> Str("X")]),
    Obj([ id |-> Str("9"), title |-> Str("T"), content |-> Str("C"), author |-> Str("X"),
          createdAt |-> Str("1999"), updatedAt |-> Str("1999") ]) }

Times == 1..MaxTime

(* ------------------------------ handlers ------------------------------- *)

Init ==
  /\ posts = SeedPosts
  /\ pending = EmptyBag
  /\ nextId = 0
  /\ last = Exchange("", <<>>, Unread, Awaiting)
  /\ deleted = {}
  /\ begun = 0
  /\ fresh = <<>>
  /\ updated = {}

\* a handler suspended at `await parseJsonBody(req)`
Suspended(k) == [ c \in BagToSet(pending) |-> pending[c] ] (+) SetToBag({k})
Resumed(k) == pending (-) SetToBag({k})

\* the history fresh: a record is remembered when its POST returns it and
\* forgotten when a PUT or a DELETE of its id arrives
Remember(id, p) == [ i \in DOMAIN fresh \cup {id} |-> IF i = id THEN p ELSE fresh[i] ]
Forget(id) == [ i \in DOMAIN fresh \ {id} |-> fresh[i] ]

\* if (req.method === "OPTIONS") return new Response(null, { headers })
Preflight(method, path) ==
  /\ Route(method, path) = "preflight"
  /\ last' = Exchange(method, path, Unread, Response(200, CorsHeaders, [empty |-> TRUE]))
  /\ UNCHANGED <<posts, pending, nextId, deleted, begun, fresh, updated>>

\* GET /api/posts
ListPosts(method, path) ==
  /\ Route(method, path) = "list"
  /\ last' = Exchange(method, path, Unread, Json(200, [posts |-> StringifyAll(posts)]))
  /\ UNCHANGED <<posts, pending, nextId, deleted, begun, fresh, updated>>

\* the response of GET /api/posts/:id on the store ps
GetPostResponse(ps, id) ==
  IF FindThrows(ps, id) THEN InternalError
  ELSE IF findIndex(ps, id) = -1 THEN Json(404, [error |-> "Post not found"])
  ELSE Json(200, [post |-> Stringify(At(ps, findIndex(ps, id)))])

\* GET /api/posts/:id
GetPost(method, path) ==
  /\ Route(method, path) = "get"
  /\ last' = Exchange(method, path, Unread, GetPostResponse(posts, PathId(path)))
  /\ UNCHANGED <<posts, pending, nextId, deleted, begun, fresh, updated>>

\* POST /api/posts up to its await: nothing of the store is read
CreateBegin(method, path) ==
  /\ Route(method, path) = "create"
  /\ begun < MaxAwaits
  /\ begun' = begun + 1
  /\ pending' = Suspended([method |-> method, path |-> path])
  /\ last' = Exchange(method, path, Unread, Awaiting)
  /\ UNCHANGED <<posts, nextId, deleted, fresh, updated>>

\* !body || !body.content, the check of the title left out: C4 tells the
\* two apart
CreateRejects_NoTitle(body) ==
  \/ ~Truthy(body)
  \/ ~Truthy(Prop(body, "content"))

\* !body || !body.title || !body.content
CreateRejects(body) ==
  \/ ~Truthy(body)
  \/ ~Truthy(Prop(body, "title"))
  \/ ~Truthy(Prop(body, "content"))

\* newPost with author: body.author, the default left out: C8 tells the
\* two apart
NewPost_NoDefault(body, id, t) ==
  [ id |-> Str(id),
    title |-> Prop(body, "title"),
    content |-> Prop(body, "content"),
    author |-> Prop(body, "author"),
    createdAt |-> Str(toISOString(t)) ]

\* the newPost object of the create handler
NewPost(body, id, t) ==
  [ id |-> Str(id),
    title |-> Prop(body, "title"),
    content |-> Prop(body, "content"),
    author |-> Or(Prop(body, "author"), Str("Anonymous")),
    createdAt |-> Str(toISOString(t)) ]

\* POST /api/posts from its await on, with the body raw read at time t
CreateFinish(k, raw, t) ==
  LET body == parseJsonBody(raw) IN
    /\ k \in BagToSet(pending)
    /\ k.method = "POST"
    /\ pending' = Resumed(k)
    /\ UNCHANGED <<deleted, begun, updated>>
    /\ IF CreateRejects(body)
       THEN /\ last' = Exchange(k.method, k.path, raw,
                                Json(400, [error |-> "Title and content are required"]))
            /\ UNCHANGED <<posts, nextId, fresh>>
       ELSE /\ nextId' = nextId + 1
            /\ posts' = Push(posts, NewPost(body, generateId(nextId + 1), t))
            /\ fresh' = Remember(generateId(nextId + 1),
                                 Stringify(NewPost(body, generateId(nextId + 1), t)))
            /\ last' = Exchange(k.method, k.path, raw,
                                Json(201, [post |-> Stringify(NewPost(body, generateId(nextId + 1), t))]))

\* PUT /api/posts/:id up to its await: the index of the post is looked up
UpdateBegin(method, path) ==
  /\ Route(method, path) = "update"
  /\ fresh' = Forget(PathId(path))
  /\ UNCHANGED <<posts, nextId, deleted, updated>>
  /\ IF FindThrows(posts, PathId(path))
     THEN /\ last' = Exchange(method, path, Unread, InternalError)
          /\ UNCHANGED <<pending, begun>>
     ELSE IF findIndex(posts, PathId(path)) = -1
     THEN /\ last' = Exchange(method, path, Unread, Json(404, [error |-> "Post not found"]))
          /\ UNCHANGED <<pending, begun>>
     ELSE /\ begun < MaxAwaits
          /\ begun' = begun + 1
          /\ pending' = Suspended([ method |-> method, path |-> path,
                                     postIndex |-> findIndex(posts, PathId(path)) ])
          /\ last' = Exchange(method, path, Unread, Awaiting)

\* building updatedPost throws: posts[postIndex] is undefined and one of
\* body.title, body.content, body.author is falsy, so a property of
\* undefined is read
UpdateThrows(ps, i, body) ==
  /\ At(ps, i) = Undefined
  /\ \/ ~Truthy(Prop(body, "title"))
     \/ ~Truthy(Prop(body, "content"))
     \/ ~Truthy(Prop(body, "author"))

\* { ...posts[postIndex], ...body, updatedAt } in the place of the three
\* named properties, so that an id of the body is stored: C1 tells the two
\* apart
UpdatedPost_SpreadBody(ps, i, body, t) ==
  LET old == IF At(ps, i) = Undefined THEN <<>> ELSE At(ps, i) IN
    Spread(Spread(old, IF body.t = "object" THEN body.o ELSE <<>>),
           [updatedAt |-> Str(toISOString(t))])

\* A merge that takes a field of the body whenever the body has it (??
\* instead of ||), so an empty string of the body is stored.
UpdatedPost_Nullish(ps, i, body, t) ==
  LET old == IF At(ps, i) = Undefined THEN <<>> ELSE At(ps, i)
      Pick(f) == IF Prop(body, f) \in {Undefined, Null} THEN Get(old, f) ELSE Prop(body, f) IN
    Spread(old,
           [ title |-> Pick("title"),
             content |-> Pick("content"),
             author |-> Pick("author"),
             updatedAt |-> Str(toISOString(t)) ])

\* the updatedPost object of the update handler
UpdatedPost(ps, i, body, t) ==
  LET old == IF At(ps, i) = Undefined THEN <<>> ELSE At(ps, i) IN
    Spread(old,
           [ title |-> Or(Prop(body, "title"), Get(old, "title")),
             content |-> Or(Prop(body, "content"), Get(old, "content")),
             author |-> Or(Prop(body, "author"), Get(old, "author")),
             updatedAt |-> Str(toISOString(t)) ])

\* PUT /api/posts/:id from its await on, with the body raw read at time t
UpdateFinish(k, raw, t) ==
  LET body == parseJsonBody(raw) IN
    /\ k \in BagToSet(pending)
    /\ k.method = "PUT"
    /\ pending' = Resumed(k)
    /\ UNCHANGED <<nextId, deleted, begun, fresh>>
    /\ IF ~Truthy(body)
       THEN /\ last' = Exchange(k.method, k.path, raw,
                                Json(400, [error |-> "Invalid request body"]))
            /\ UNCHANGED <<posts, updated>>
       ELSE IF UpdateThrows(posts, k.postIndex, body)
       THEN /\ last' = Exchange(k.method, k.path, raw, InternalError)
            /\ UNCHANGED <<posts, updated>>
       ELSE /\ updated' = updated \cup {PathId(k.path)}
            /\ posts' = WriteAt(posts, k.postIndex, UpdatedPost(posts, k.postIndex, body, t))
            /\ last' = Exchange(k.method, k.path, raw,
                                Json(200, [post |-> Stringify(UpdatedPost(posts, k.postIndex, body, t))]))

\* DELETE /api/posts/:id
DeletePost(method, path) ==
  /\ Route(method, path) = "delete"
  /\ fresh' = Forget(PathId(path))
  /\ UNCHANGED <<pending, nextId, begun, updated>>
  /\ IF FindThrows(posts, PathId(path))
     THEN /\ last' = Exchange(method, path, Unread, InternalError)
          /\ UNCHANGED <<posts, deleted>>
     ELSE IF findIndex(posts, PathId(path)) = -1
     THEN /\ last' = Exchange(method, path, Unread, Json(404, [error |-> "Post not found"]))
          /\ UNCHANGED <<posts, deleted>>
     ELSE /\ posts' = Splice(posts, findIndex(posts, PathId(path)))
          /\ deleted' = deleted \cup {PathId(path)}
          /\ last' = Exchange(method, path, Unread,
                              Json(200, [ message |-> "Post deleted successfully",
                                          post |-> Stringify(At(posts, findIndex(posts, PathId(path)))) ]))

\* if (path === "/") return the HTML page
HomePage(method, path) ==
  /\ Route(method, path) = "home"
  /\ last' = Exchange(method, path, Unread,
                      Response(200, HtmlHeaders, [html |-> "Deno Deploy Blog API"]))
  /\ UNCHANGED <<posts, pending, nextId, deleted, begun, fresh, updated>>

\* the 404 at the end of the callback
NotFound(method, path) ==
  /\ Route(method, path) = "notfound"
  /\ last' = Exchange(method, path, Unread, Json(404, [error |-> "Not Found"]))
  /\ UNCHANGED <<posts, pending, nextId, deleted, begun, fresh, updated>>

\* a request arrives and its handler runs up to its first await or to its end
Arrive ==
  \E method \in Methods, path \in Paths :
    \/ Preflight(method, path)
    \/ ListPosts(method, path)
    \/ GetPost(method, path)
    \/ CreateBegin(method, path)
    \/ UpdateBegin(method, path)
    \/ DeletePost(method, path)
    \/ HomePage(method, path)
    \/ NotFound(method, path)

\* a suspended handler gets its body and runs to its end
Resume ==
  \E k \in BagToSet(pending), raw \in Bodies, t \in Times :
    \/ CreateFinish(k, raw, t)
    \/ UpdateFinish(k, raw, t)

\* Deno.serve starts the handler of a request while others are suspended
Next == Arrive \/ Resume

Spec == Init /\ [][Next]_vars

\* requests handled one at a time: none arrives while a handler is suspended
NextSerial == (pending = EmptyBag /\ Arrive) \/ Resume

SpecSerial == Init /\ [][NextSerial]_vars

(* ------------------------- reading the state --------------------------- *)

\* the entries of a store that are posts with the id `id`
PostsWithId(ps, id) ==
  { ps[i] : i \in { j \in 1..Len(ps) : ps[j] # Hole /\ Get(ps[j], "id") = Str(id) } }
HasPost(ps, id) == PostsWithId(ps, id) # {}
ThePost(ps, id) == CHOOSE e \in PostsWithId(ps, id) : TRUE

\* the id property of every entry of a list of stringified posts
IdsOf(ps) == [ i \in 1..Len(ps) |-> IF ps[i] = Null THEN Undefined ELSE Get(ps[i], "id") ]

\* the step made was the end of a handler that read its body
Finished(e, method) == e.req.method = method /\ e.req.body # Unread

\* the step made answered a request that Route sends to `route`
Answered(e, route) ==
  /\ e.resp # Awaiting
  /\ e.req.method # ""
  /\ Route(e.req.method, e.req.path) = route

PostNotFound == Json(404, [error |-> "Post not found"])

(* ------------------------------- claims -------------------------------- *)

\* C1: in every reachable state, no two posts of the store carry the same
\* id (entries a PUT wrote without any id property are the matter of C18).
C1_UniqueIds ==
  \A i, j \in 1..Len(posts) :
    (i < j /\ posts[i] # Hole /\ posts[j] # Hole
       /\ "id" \in DOMAIN posts[i] /\ "id" \in DOMAIN posts[j])
      => posts[i].id # posts[j].id

\* C1 witness: a created post, an updated post and a deleted post, with two
\* posts left in the store
C1_Witness ==
  /\ nextId >= 1
  /\ deleted # {}
  /\ \E i, j \in 1..Len(posts) :
       /\ i < j
       /\ posts[i] # Hole /\ posts[j] # Hole
       /\ "id" \in DOMAIN posts[i] /\ "id" \in DOMAIN posts[j]
       /\ "updatedAt" \in DOMAIN posts[i]

\* C2: every request ends with a response whose status is 200, 201, 400 or
\* 404; no handler ends with an uncaught exception.
C2_NoUncaught == last.resp # Awaiting => last.resp.status \in {200, 201, 400, 404}

\* a body that supplies a non-empty author and nothing else
OnlyAuthor(raw) ==
  /\ raw.t = "object"
  /\ DOMAIN raw.o = {"author"}
  /\ raw.o.author.t = "string" /\ raw.o.author.v # ""

\* C3: a PUT on an existing post whose body supplies only a non-empty
\* author is answered 200, sets that post's author to the supplied value and
\* its updatedAt, and leaves its title, content, createdAt and id as they were.
C3_AuthorOnlyUpdate ==
  [][ ( /\ Finished(last', "PUT")
        /\ OnlyAuthor(last'.req.body)
        /\ HasPost(posts, PathId(last'.req.path)) )
      => ( /\ last'.resp.status = 200
           /\ HasPost(posts', PathId(last'.req.path))
           /\ LET old == ThePost(posts, PathId(last'.req.path))
                  new == ThePost(posts', PathId(last'.req.path))
              IN /\ Get(new, "author") = last'.req.body.o.author
                 /\ Get(new, "updatedAt") # Undefined
                 /\ \A f \in {"id", "title", "content", "createdAt"} :
                      Get(new, f) = Get(old, f) ) ]_vars

\* a create body the claim C4 names: no JSON, or a title or a content that
\* is missing or the empty string
BadCreateBody(raw) ==
  \/ raw = Malformed
  \/ raw.t # "object"
  \/ "title" \notin DOMAIN raw.o
  \/ raw.o.title = Str("")
  \/ "content" \notin DOMAIN raw.o
  \/ raw.o.content = Str("")

\* C4: a POST /api/posts whose body fails to parse, or whose title or content
\* is empty or missing, is answered 400 "Title and content are required" and
\* leaves the store as it was.
C4_BadCreateRejected ==
  [][ (Finished(last', "POST") /\ BadCreateBody(last'.req.body))
      => ( /\ last'.resp = Json(400, [error |-> "Title and content are required"])
           /\ posts' = posts ) ]_vars

\* C4 witness: a POST with an empty title was answered while the store held
\* a created post
C4_Witness ==
  /\ Finished(last, "POST")
  /\ last.req.body.t = "object"
  /\ Get(last.req.body.o, "title") = Str("")
  /\ last.resp.status = 400
  /\ nextId >= 1

\* C5: as long as nothing was deleted, after N successful creates
\* GET /api/posts returns N + 2 posts: the seed posts "1" and "2", then the
\* created posts in the order of their creation.
C5_ListInInsertionOrder ==
  (Answered(last, "list") /\ deleted = {})
    => /\ last.resp.status = 200
       /\ Len(last.resp.body.posts) = nextId + 2
       /\ IdsOf(last.resp.body.posts)
            = <<Str("1"), Str("2")>> \o [ n \in 1..nextId |-> Str(generateId(n)) ]

\* C5 witness: a list of four posts after two creates and no delete
C5_Witness ==
  /\ Answered(last, "list")
  /\ deleted = {}
  /\ nextId = 2
  /\ Len(last.resp.body.posts) = 4

\* C6: after a DELETE of an id was answered 200, every later GET and every
\* later DELETE of that id is answered 404 "Post not found".
C6_DeletedStaysGone ==
  [][ ( /\ Answered(last', "get") \/ Answered(last', "delete")
        /\ PathId(last'.req.path) \in deleted )
      => last'.resp = PostNotFound ]_vars

\* C7: a GET of the id a POST returned, before any PUT or DELETE of that id,
\* is answered 200 with the record the POST returned.
C7_RoundTrip ==
  (Answered(last, "get") /\ PathId(last.req.path) \in DOMAIN fresh)
    => last.resp = Json(200, [post |-> fresh[PathId(last.req.path)]])

\* a create body with a non-empty title and content and no author
ValidNoAuthor(raw) ==
  /\ raw.t = "object"
  /\ "author" \notin DOMAIN raw.o
  /\ "title" \in DOMAIN raw.o /\ raw.o.title.t = "string" /\ raw.o.title.v # ""
  /\ "content" \in DOMAIN raw.o /\ raw.o.content.t = "string" /\ raw.o.content.v # ""

\* C8: a POST /api/posts with a non-empty title and content and no author is
\* answered 201 with a post whose author is "Anonymous", whose title and
\* content are the submitted ones and whose id is a non-empty string that no
\* post of the store has; that post is appended at the end of the store.
C8_CreateDefaults ==
  [][ (Finished(last', "POST") /\ ValidNoAuthor(last'.req.body))
      => ( /\ last'.resp.status = 201
           /\ LET p == last'.resp.body.post IN
                /\ Get(p, "author") = Str("Anonymous")
                /\ Get(p, "title") = last'.req.body.o.title
                /\ Get(p, "content") = last'.req.body.o.content
                /\ Get(p, "id").t = "string" /\ Get(p, "id").v # ""
                /\ \A i \in 1..Len(posts) :
                     posts[i] # Hole => Get(posts[i], "id") # Get(p, "id")
                /\ posts' = posts \o <<p>> ) ]_vars

\* C8 witness: a second post was created without an author
C8_Witness ==
  /\ Finished(last, "POST")
  /\ ValidNoAuthor(last.req.body)
  /\ last.resp.status = 201
  /\ nextId = 2

\* C9: a PUT /api/posts/{id} is answered 404 when no post has that id, 400
\* "Invalid request body" when the id exists and the body does not parse as
\* JSON, and 200 otherwise; answered 404 or 400 it leaves the store unchanged.
C9_UpdateStatus ==
  [][ /\ ( /\ last'.req.method = "PUT" /\ MatchesPostPath(last'.req.path)
            /\ ~HasPost(posts, PathId(last'.req.path)) )
          => ( /\ last'.resp = PostNotFound
               /\ posts' = posts )
      /\ ( /\ Finished(last', "PUT")
            /\ last'.req.body = Malformed )
          => ( /\ last'.resp = Json(400, [error |-> "Invalid request body"])
               /\ posts' = posts )
      /\ ( /\ Finished(last', "PUT")
            /\ last'.req.body # Malformed )
          => last'.resp.status = 200 ]_vars

\* the requests the claim C10 lists as routed
Listed(method, path) ==
  \/ method = "GET" /\ path = Home
  \/ method \in {"GET", "POST"} /\ path = ApiPosts
  \/ method \in {"GET", "PUT", "DELETE"} /\ MatchesPostPath(path)

\* C10: every request that is not OPTIONS and is not one of GET /,
\* GET /api/posts, POST /api/posts and GET, PUT, DELETE /api/posts/{id} is
\* answered 404 {"error":"Not Found"} and leaves the store unchanged.
C10_UnlistedNotFound ==
  [][ ( /\ last'.req.method \notin {"", "OPTIONS"}
        /\ ~Listed(last'.req.method, last'.req.path) )
      => ( /\ last'.resp = Json(404, [error |-> "Not Found"])
           /\ posts' = posts ) ]_vars

\* C11: an OPTIONS request on any path is answered 200 with the CORS headers and
\* no body, whatever the store holds (also when the store holds a hole, where a
\* lookup would throw), and the step changes neither the store nor the
\* suspended handlers.
C11_PreflightAnswered ==
  [][last'.req.method = "OPTIONS" =>
       /\ last'.resp = Response(200, CorsHeaders, [empty |-> TRUE])
       /\ posts' = posts
       /\ pending' = pending
       /\ nextId' = nextId]_vars

\* An OPTIONS request on the path of a post was answered 200 while the store
\* held a hole, on which every lookup by id throws.
C11_Witness ==
  /\ last.req.method = "OPTIONS"
  /\ MatchesPostPath(last.req.path)
  /\ \E i \in 1..Len(posts) : posts[i] = Hole
  /\ last.resp.status = 200

\* the step answers a DELETE with 200
Deletes(e) == Answered(e, "delete") /\ e.resp.status = 200

\* C12: every entry of the store keeps its id and its createdAt in every step:
\* at the same position in a step that is no successful DELETE, and at some
\* position in a successful DELETE of another id.
C12_IdAndCreatedAtKept ==
  [][IF Deletes(last')
     THEN \A i \in 1..Len(posts) :
            posts[i] # Hole /\ Get(posts[i], "id") # Str(PathId(last'.req.path)) =>
              \E j \in 1..Len(posts') :
                /\ posts'[j] # Hole
                /\ Get(posts'[j], "id") = Get(posts[i], "id")
                /\ Get(posts'[j], "createdAt") = Get(posts[i], "createdAt")
     ELSE \A i \in 1..Len(posts) :
            posts[i] # Hole =>
              /\ i <= Len(posts')
              /\ posts'[i] # Hole
              /\ Get(posts'[i], "id") = Get(posts[i], "id")
              /\ Get(posts'[i], "createdAt") = Get(posts[i], "createdAt")]_vars

\* A PUT whose body carries an id and a createdAt was answered 200, and the
\* post of its path is in the store with its own createdAt.
C12_Witness ==
  /\ Finished(last, "PUT")
  /\ last.resp.status = 200
  /\ Prop(parseJsonBody(last.req.body), "id") = Str("9")
  /\ Prop(parseJsonBody(last.req.body), "createdAt") = Str("1999")
  /\ HasPost(posts, PathId(last.req.path))
  /\ Get(ThePost(posts, PathId(last.req.path)), "createdAt") # Str("1999")
  /\ Get(ThePost(posts, PathId(last.req.path)), "title") = Str("T")

\* C13: a PUT answered 200 returns a post with the id of its path and changes
\* no entry of the store but the post with that id.
C13_PutWritesItsPost ==
  [][(Finished(last', "PUT") /\ last'.resp.status = 200) =>
       /\ Get(last'.resp.body.post, "id") = Str(PathId(last'.req.path))
       /\ Len(posts') = Len(posts)
       /\ \A i \in 1..Len(posts) :
            posts'[i] # posts[i] => Get(posts[i], "id") = Str(PathId(last'.req.path))]_vars

\* C14: when requests are handled one at a time, a PUT answered 200 leaves the
\* length of the store and the id at every position unchanged, and leaves every
\* entry but the post of its path unchanged.
C14_PutFrame ==
  [][(Finished(last', "PUT") /\ last'.resp.status = 200) =>
       /\ Len(posts') = Len(posts)
       /\ \A i \in 1..Len(posts) :
            /\ Get(posts'[i], "id") = Get(posts[i], "id")
            /\ Get(posts[i], "id") # Str(PathId(last'.req.path)) => posts'[i] = posts[i]]_vars

\* A PUT on the first of at least two posts was answered 200 and the post is
\* still the first.
C14_Witness ==
  /\ Finished(last, "PUT")
  /\ last.resp.status = 200
  /\ Len(posts) >= 2
  /\ Get(posts[1], "id") = Str(PathId(last.req.path))
  /\ "updatedAt" \in DOMAIN posts[1]
  /\ "updatedAt" \notin DOMAIN posts[2]

\* C15: a DELETE answered 200 removes the one entry with the id of its path,
\* returns that entry, and leaves the other entries as they were and in their
\* order; a DELETE answered 404 leaves the store unchanged.
C15_DeleteFrame ==
  [][Answered(last', "delete") =>
       /\ last'.resp.status = 200 =>
            \E i \in 1..Len(posts) :
              /\ posts[i] # Hole
              /\ Get(posts[i], "id") = Str(PathId(last'.req.path))
              /\ last'.resp.body.post = Stringify(posts[i])
              /\ Len(posts') = Len(posts) - 1
              /\ posts' = SubSeq(posts, 1, i - 1) \o SubSeq(posts, i + 1, Len(posts))
              /\ ~HasPost(posts', PathId(last'.req.path))
       /\ last'.resp.status = 404 => posts' = posts]_vars

\* The first of two posts was deleted: its record was returned and the other
\* post is now the first.
C15_Witness ==
  /\ Deletes(last)
  /\ Get(last.resp.body.post, "id") = Str("1")
  /\ Len(posts) >= 1
  /\ Get(posts[1], "id") = Str("2")

\* C16: every entry of the store has a title and a content that are not empty
\* (not the empty string nor another falsy value).
C16_TitleAndContent ==
  \A i \in 1..Len(posts) :
    posts[i] # Hole =>
      /\ Truthy(Get(posts[i], "title"))
      /\ Truthy(Get(posts[i], "content"))

\* A PUT whose body gives the empty string as title was answered 200, and the
\* post of its path has its previous title and the content of the body.
C16_Witness ==
  /\ Finished(last, "PUT")
  /\ last.resp.status = 200
  /\ Prop(parseJsonBody(last.req.body), "title") = Str("")
  /\ HasPost(posts, PathId(last.req.path))
  /\ Get(ThePost(posts, PathId(last.req.path)), "title") = Str("Introduction to Deno Deploy")
  /\ Get(ThePost(posts, PathId(last.req.path)), "content") = Str("C")

\* C17: an entry of the store carries an updatedAt if and only if a PUT on the
\* path of its id was answered 200.
C17_UpdatedAtIffPut ==
  \A i \in 1..Len(posts) :
    posts[i] # Hole =>
      ("updatedAt" \in DOMAIN posts[i]
         <=> \E id \in updated : Get(posts[i], "id") = Str(id))

\* C18: every entry of the store is a complete post record, with an id, a
\* title, a content, an author and a createdAt.
C18_CompleteEntries ==
  \A i \in 1..Len(posts) :
    /\ posts[i] # Hole
    /\ \A f \in {"id", "title", "content", "author", "createdAt"} :
         Get(posts[i], f) # Undefined

\* The create handler run as one step on the store ps, with the body raw read
\* at time t and n ids generated so far: the new store and the response.
CreateAtOnce(ps, n, raw, t) ==
  LET body == parseJsonBody(raw) IN
    IF CreateRejects(body)
    THEN [posts |-> ps, resp |-> Json(400, [error |-> "Title and content are required"])]
    ELSE [ posts |-> Push(ps, NewPost(body, generateId(n + 1), t)),
           resp |-> Json(201, [post |-> Stringify(NewPost(body, generateId(n + 1), t))]) ]

\* The update handler run as one step on the store ps, the index looked up in
\* ps itself: the new store and the response.
UpdateAtOnce(ps, path, raw, t) ==
  LET body == parseJsonBody(raw)
      i == findIndex(ps, PathId(path)) IN
    IF i = -1 THEN [posts |-> ps, resp |-> PostNotFound]
    ELSE IF ~Truthy(body)
    THEN [posts |-> ps, resp |-> Json(400, [error |-> "Invalid request body"])]
    ELSE [ posts |-> WriteAt(ps, i, UpdatedPost(ps, i, body, t)),
           resp |-> Json(200, [post |-> Stringify(UpdatedPost(ps, i, body, t))]) ]

\* C19: as long as no post was deleted, the step in which a POST or a PUT
\* resumes with its body leaves the store and gives the response that the
\* whole handler, run as one step at that moment, would.
C19_AsIfAtomic ==
  [][(deleted = {} /\ last'.req.body # Unread) =>
       \E t \in Times :
         [posts |-> posts', resp |-> last'.resp] =
           IF last'.req.method = "PUT"
           THEN UpdateAtOnce(posts, last'.req.path, last'.req.body, t)
           ELSE CreateAtOnce(posts, nextId, last'.req.body, t)]_vars

\* No post was deleted, and a PUT was answered 200 while another PUT on the same
\* post, which looked its index up before, is still suspended at its await: the
\* second will merge into the post as the first left it.
C19_Witness ==
  /\ deleted = {}
  /\ Finished(last, "PUT")
  /\ last.resp.status = 200
  /\ Prop(parseJsonBody(last.req.body), "author") = Undefined
  /\ \E k \in BagToSet(pending) : k.method = "PUT" /\ k.path = last.req.path
  /\ HasPost(posts, PathId(last.req.path))
  /\ Get(ThePost(posts, PathId(last.req.path)), "title") = Str("T")

====
